---------------------------- MODULE Spec2Model ----------------------------
(***************************************************************************)
(* Model of clickhouse_mcp_server/server.py: the four MCP entry points     *)
(* (list_resources, read_resource, list_tools, call_tool) and              *)
(* get_clickhouse_client, run by one or more workers against a ClickHouse  *)
(* store.  Python strings are TLA+ strings (TLC evaluates Len, \o and      *)
(* SubSeq on them); an optional value is a sequence of length 0 or 1.      *)
(***************************************************************************)
EXTENDS Integers, Sequences, FiniteSets, TLC

VARIABLES env, store, frame, nextHandle

vars == <<env, store, frame, nextHandle>>

----------------------------------------------------------------------------
(* Bounds of the model.                                                    *)

\* workers (concurrent invocations) of the concurrent specification
NumWorkers == 2
\* client handles one behaviour may create
MaxConnections == 2
\* leading whitespace characters put in front of a submitted query
MaxPad == 1
\* rows of the largest query answer the store holds
MaxRows == 2

----------------------------------------------------------------------------
(* Python values.                                                          *)

None == <<>>
Some(v) == <<v>>
IsNone(o) == o = <<>>
Get(o) == o[1]

\* str[i:i+1]
CharAt(s, i) == SubSeq(s, i, i)

\* Python truthiness of an optional argument: None is falsy, and so are the
\* empty str and the int 0
TruthyStr(o) == ~IsNone(o) /\ Get(o) # ""
TruthyInt(o) == ~IsNone(o) /\ Get(o) # 0

\* Python's `a or b` for an optional str a: a when truthy, else b
PyOr(a, b) == IF TruthyStr(a) THEN Get(a) ELSE b

\* A str is a sequence of characters; the model's strings hold the
\* characters U+0001..U+00FF.  Chars has them all, each at the place of its
\* code point.
Backtick == SubSeq("`'", 1, 1)
Chars ==
    "\t\n\f\r !\"#$%&'()*+,-./0123456789:;<=>?@ABCDEFGHIJKLMNOPQRSTUVWXYZ[\\]^_"
        \o Backtick \o
    "abcdefghijklmnopqrstuvwxyz{|}~ ¡¢£¤¥¦§¨©ª«¬­®¯°±²³´µ¶·¸¹º»¼½¾¿ÀÁÂÃÄÅÆÇÈÉÊËÌÍÎÏÐÑÒÓÔÕÖ×ØÙÚÛÜÝÞßàáâãäåæçèéêëìíîïðñòóôõö÷øùúûüýþÿ"

\* ord(c) and chr(n)
Ord(c) == CHOOSE n \in 1..255 : CharAt(Chars, n) = c
Chr(n) == CharAt(Chars, n)

\* the characters str.isspace() holds of, which str.strip() removes
Whitespace == {Chr(n) : n \in {9, 10, 11, 12, 13, 28, 29, 30, 31, 32, 133, 160}}

\* the characters int() skips around a literal: U+001C..U+001F are not among them
IntWhitespace == {Chr(n) : n \in {9, 10, 11, 12, 13, 32, 133, 160}}

\* the characters repr() writes as they are
Printable == {Chr(n) : n \in (32..126) \cup (161..172) \cup (174..255)}

\* a str as the sequence of its characters
Glyphs(s) == [i \in 1..Len(s) |-> CharAt(s, i)]

\* the 59 letters str.upper() changes
LowerAlphabet == "abcdefghijklmnopqrstuvwxyzµßàáâãäåæçèéêëìíîïðñòóôõöøùúûüýþÿ"

\* what str.upper() makes of each, place by place: a sequence of characters,
\* a character beyond U+00FF written by its name
UpperAlphabet ==
    [i \in 1..26 |-> <<CharAt("ABCDEFGHIJKLMNOPQRSTUVWXYZ", i)>>]
        \o << <<"U+039C">>, <<"S", "S">> >>
        \o [i \in 1..30 |-> <<CharAt("ÀÁÂÃÄÅÆÇÈÉÊËÌÍÎÏÐÑÒÓÔÕÖØÙÚÛÜÝÞ", i)>>]
        \o << <<"U+0178">> >>

\* upper() of one character
UpperChar(c) ==
    IF \E i \in 1..Len(LowerAlphabet) : CharAt(LowerAlphabet, i) = c
    THEN UpperAlphabet[CHOOSE i \in 1..Len(LowerAlphabet) : CharAt(LowerAlphabet, i) = c]
    ELSE <<c>>

\* str.upper(), as the sequence of the result's characters
RECURSIVE Upper(_)
Upper(s) == IF s = "" THEN <<>> ELSE UpperChar(CharAt(s, 1)) \o Upper(Tail(s))

\* s with the characters of chars removed from its left / right end
RECURSIVE LStripOf(_, _)
LStripOf(s, chars) ==
    IF s # "" /\ CharAt(s, 1) \in chars THEN LStripOf(Tail(s), chars) ELSE s

RECURSIVE RStripOf(_, _)
RStripOf(s, chars) ==
    IF s # "" /\ CharAt(s, Len(s)) \in chars
    THEN RStripOf(SubSeq(s, 1, Len(s) - 1), chars)
    ELSE s

\* str.lstrip() / str.rstrip() / str.strip()
LStrip(s) == LStripOf(s, Whitespace)
RStrip(s) == RStripOf(s, Whitespace)
Strip(s) == RStrip(LStrip(s))

\* str.startswith(prefix); s and prefix both strs or both character sequences
StartsWith(s, prefix) ==
    Len(s) >= Len(prefix) /\ SubSeq(s, 1, Len(prefix)) = prefix

\* substring test, `needle in s`
Contains(s, needle) ==
    \E i \in 1..(Len(s) - Len(needle) + 1) : SubSeq(s, i, i + Len(needle) - 1) = needle

\* str.split(sep) for a one-character separator: always at least one part
RECURSIVE SplitFrom(_, _, _)
SplitFrom(s, sep, cur) ==
    IF s = "" THEN <<cur>>
    ELSE IF CharAt(s, 1) = sep THEN <<cur>> \o SplitFrom(Tail(s), sep, "")
    ELSE SplitFrom(Tail(s), sep, cur \o CharAt(s, 1))

Split(s, sep) == SplitFrom(s, sep, "")

\* sep.join(parts)
RECURSIVE Join(_, _)
Join(parts, sep) ==
    IF parts = <<>> THEN ""
    ELSE IF Len(parts) = 1 THEN parts[1]
    ELSE parts[1] \o sep \o Join(Tail(parts), sep)

DigitChars == "0123456789"

\* str(n) for a non-negative int
RECURSIVE NatStr(_)
NatStr(n) ==
    IF n < 10 THEN CharAt(DigitChars, n + 1)
    ELSE NatStr(n \div 10) \o CharAt(DigitChars, (n % 10) + 1)

IntStr(n) == IF n < 0 THEN "-" \o NatStr(0 - n) ELSE NatStr(n)

IsDigit(c) == \E i \in 1..10 : CharAt(DigitChars, i) = c
DigitVal(c) == (CHOOSE i \in 1..10 : CharAt(DigitChars, i) = c) - 1

\* the sign int() reads at the front of a literal, and the text after it
HasSign(t) == t # "" /\ CharAt(t, 1) \in {"+", "-"}
Unsigned(t) == IF HasSign(t) THEN Tail(t) ELSE t

\* digits, with single underscores allowed between two digits
IsDigitGroups(d) ==
    /\ d # ""
    /\ \A i \in 1..Len(d) :
          \/ IsDigit(CharAt(d, i))
          \/ /\ CharAt(d, i) = "_"
             /\ 1 < i /\ i < Len(d)
             /\ IsDigit(CharAt(d, i - 1)) /\ IsDigit(CharAt(d, i + 1))

\* the text int() reads once the whitespace around it is skipped
IntStrip(s) == RStripOf(LStripOf(s, IntWhitespace), IntWhitespace)

\* int(s) accepts: whitespace around an optional sign and a decimal literal
IsIntLiteral(s) == IsDigitGroups(Unsigned(IntStrip(s)))

RECURSIVE DigitsVal(_, _)
DigitsVal(t, acc) ==
    IF t = "" THEN acc
    ELSE IF CharAt(t, 1) = "_" THEN DigitsVal(Tail(t), acc)
    ELSE DigitsVal(Tail(t), acc * 10 + DigitVal(CharAt(t, 1)))

\* int(s) of a literal int() accepts
ParseInt(s) ==
    LET t == IntStrip(s)
        n == DigitsVal(Unsigned(t), 0)
    IN  IF HasSign(t) /\ CharAt(t, 1) = "-" THEN 0 - n ELSE n

\* A scalar of a result row, tagged with its Python type
IntV(n) == [t |-> "int", v |-> n]
StrV(s) == [t |-> "str", v |-> s]
NoneV == [t |-> "NoneType", v |-> 0]
\* a uuid.UUID, held as its canonical text
UuidV(s) == [t |-> "UUID", v |-> s]

HasChar(s, c) == \E i \in 1..Len(s) : CharAt(s, i) = c

HexLower == "0123456789abcdef"

\* how repr() writes one character of a str inside the quote q
ReprChar(c, q) ==
    CASE c = "\\" -> "\\\\"
      [] c = q -> "\\" \o q
      [] c = "\t" -> "\\t"
      [] c = "\n" -> "\\n"
      [] c = "\r" -> "\\r"
      [] c \in Printable -> c
      [] OTHER -> "\\x" \o CharAt(HexLower, (Ord(c) \div 16) + 1)
                        \o CharAt(HexLower, (Ord(c) % 16) + 1)

RECURSIVE ReprBody(_, _)
ReprBody(s, q) == IF s = "" THEN "" ELSE ReprChar(CharAt(s, 1), q) \o ReprBody(Tail(s), q)

\* repr(s) of a str: double quotes when s has a single quote and no double
\* one, single quotes otherwise; backslash, the quote and the unprintable
\* characters escaped
ReprStr(s) ==
    LET q == IF HasChar(s, "'") /\ ~HasChar(s, "\"") THEN "\"" ELSE "'"
    IN  q \o ReprBody(s, q) \o q

\* repr(value) of a row scalar
Repr(value) ==
    IF value.t = "int" THEN IntStr(value.v)
    ELSE IF value.t = "str" THEN ReprStr(value.v)
    ELSE IF value.t = "UUID" THEN "UUID('" \o value.v \o "')"
    ELSE "None"

\* str(value) of a row scalar
Str(value) ==
    IF value.t = "int" THEN IntStr(value.v)
    ELSE IF value.t = "str" THEN value.v
    ELSE IF value.t = "UUID" THEN value.v
    ELSE "None"

----------------------------------------------------------------------------
(* The process environment and get_clickhouse_client's configuration.      *)

\* os.getenv(name, default): the variable's value when set, else the default
Getenv(e, name, default) == IF IsNone(e[name]) THEN default ELSE Get(e[name])

NoArgs ==
    [host |-> None, port |-> None, username |-> None, password |-> None, database |-> None]

\* line 37 raises ValueError when the port falls back to a CLICKHOUSE_PORT
\* that int() rejects (`or` evaluates its right operand only when needed)
PortRaises(args, e) ==
    ~TruthyInt(args.port) /\ ~IsIntLiteral(Getenv(e, "CLICKHOUSE_PORT", "8123"))

ResolvePort(args, e) ==
    IF TruthyInt(args.port) THEN Get(args.port)
    ELSE ParseInt(Getenv(e, "CLICKHOUSE_PORT", "8123"))

\* lines 36-40: the five parameters handed to get_client
ResolveConfig(args, e) ==
    [host     |-> PyOr(args.host, Getenv(e, "CLICKHOUSE_HOST", "localhost")),
     port     |-> ResolvePort(args, e),
     username |-> PyOr(args.username, Getenv(e, "CLICKHOUSE_USER", "default")),
     password |-> PyOr(args.password, Getenv(e, "CLICKHOUSE_PASSWORD", "")),
     database |-> PyOr(args.database, Getenv(e, "CLICKHOUSE_DATABASE", "default"))]

Error(type, msg) == [type |-> type, msg |-> msg]
NoError == Error("", "")

\* how a call, or a step of one, ends: with a value or with an exception
Ok(value) == [status |-> "ok", value |-> value, error |-> NoError]
Failed(err) == [status |-> "error", value |-> <<>>, error |-> err]

\* the message of the ValueError int(s) raises: repr(s), at most 200
\* characters of it
IntErrorMessage(s) ==
    LET r == ReprStr(s)
    IN  "invalid literal for int() with base 10: "
            \o SubSeq(r, 1, IF Len(r) < 200 THEN Len(r) ELSE 200)

\* What get_clickhouse_client(args) does before a handle exists: int() may
\* raise, and get_client raises when the server cannot be reached.
ClientFailure(args, e, st) ==
    IF PortRaises(args, e)
    THEN Some(Error("ValueError", IntErrorMessage(Getenv(e, "CLICKHOUSE_PORT", "8123"))))
    ELSE IF ~st.up THEN Some(Error("OperationalError", "Connection refused"))
    ELSE None

----------------------------------------------------------------------------
(* The backing store: query(sql) -> column names and rows, or an error.    *)

DbQuery ==
    "\n    SELECT\n        name,\n        engine\n    FROM system.databases\n    WHERE name NOT IN ('system', 'information_schema', 'INFORMATION_SCHEMA')\n    "

\* the NOT IN list of the database query
ReservedDatabases == {"system", "information_schema", "INFORMATION_SCHEMA"}

ShowTablesPrefix == "SHOW TABLES FROM "
DescribePrefix == "DESCRIBE TABLE "

QueryOk(cols, rows) == [ok |-> TRUE, column_names |-> cols, result_rows |-> rows, message |-> ""]
QueryErr(msg) == [ok |-> FALSE, column_names |-> <<>>, result_rows |-> <<>>, message |-> msg]

RECURSIVE SelectSeqBy(_, _)
\* the elements of seq whose name is not in the set excluded, in order
SelectSeqBy(seq, excluded) ==
    IF seq = <<>> THEN <<>>
    ELSE IF Head(seq).name \in excluded THEN SelectSeqBy(Tail(seq), excluded)
    ELSE <<Head(seq)>> \o SelectSeqBy(Tail(seq), excluded)

HasName(seq, n) == \E i \in 1..Len(seq) : seq[i].name = n
ByName(seq, n) == seq[CHOOSE i \in 1..Len(seq) : seq[i].name = n]

\* text before / after the first "." of s
BeforeDot(s) == Split(s, ".")[1]
AfterDot(s) == SubSeq(s, Len(BeforeDot(s)) + 2, Len(s))

StoreDatabases(st) ==
    LET dbs == SelectSeqBy(st.catalog, ReservedDatabases)
    IN  QueryOk(<<"name", "engine">>,
                [i \in 1..Len(dbs) |-> <<StrV(dbs[i].name), StrV(dbs[i].engine)>>])

StoreShowTables(st, db) ==
    IF ~HasName(st.catalog, db) THEN QueryErr("Database " \o db \o " doesn't exist")
    ELSE IF ByName(st.catalog, db).denied
    THEN QueryErr("Not enough privileges on " \o db)
    ELSE LET ts == ByName(st.catalog, db).tables
         IN  QueryOk(<<"name">>, [i \in 1..Len(ts) |-> <<StrV(ts[i].name)>>])

StoreDescribe(st, db, table) ==
    IF ~HasName(st.catalog, db) THEN QueryErr("Database " \o db \o " doesn't exist")
    ELSE IF ByName(st.catalog, db).denied
    THEN QueryErr("Not enough privileges on " \o db)
    ELSE IF ~HasName(ByName(st.catalog, db).tables, table)
    THEN QueryErr("Table " \o db \o "." \o table \o " doesn't exist")
    ELSE LET cs == ByName(ByName(st.catalog, db).tables, table).columns
         IN  QueryOk(<<"name", "type", "default_type">>,
                     [i \in 1..Len(cs) |-> <<StrV(cs[i].name), StrV(cs[i].type), StrV("")>>])

\* client.query(sql) as the store answers it.  Any other statement gets the
\* answer the store holds for user queries.
StoreQuery(st, sql) ==
    IF sql = DbQuery THEN StoreDatabases(st)
    ELSE IF StartsWith(sql, ShowTablesPrefix)
    THEN StoreShowTables(st, SubSeq(sql, Len(ShowTablesPrefix) + 1, Len(sql)))
    ELSE IF StartsWith(sql, DescribePrefix)
    THEN LET target == SubSeq(sql, Len(DescribePrefix) + 1, Len(sql))
         IN  StoreDescribe(st, BeforeDot(target), AfterDot(target))
    ELSE st.answer

----------------------------------------------------------------------------
(* list_resources, read_resource, list_tools, call_tool: their pure parts. *)

\* An identifier begins with the scheme; list_resources builds it with AnyUrl
\* (below), read_resource takes it apart as str(uri) (ParseIdentifier).
Scheme == "clickhouse://"

\* ------------------------------------------------------------------------
\* AnyUrl(text) of lines 71 and 83: pydantic hands the text to the url
\* crate's parser and keeps what the parser writes back.  Modelled for a
\* text that begins with clickhouse:// (a scheme the parser holds no special
\* rules for) and ends in a letter, which is all that lines 71 and 83 build.

UrlOk(text) == [ok |-> TRUE, text |-> text, reason |-> ""]
UrlFailed(reason) == [ok |-> FALSE, text |-> "", reason |-> reason]

From(s, i) == SubSeq(s, i, Len(s))
Upto(s, i) == SubSeq(s, 1, i)

\* s without the characters of chars
RECURSIVE Without(_, _)
Without(s, chars) ==
    IF s = "" THEN ""
    ELSE (IF CharAt(s, 1) \in chars THEN "" ELSE CharAt(s, 1)) \o Without(Tail(s), chars)

\* the place of the first character of s that is in chars, Len(s) + 1 if none
FirstOf(s, chars) ==
    IF \E i \in 1..Len(s) : CharAt(s, i) \in chars
    THEN CHOOSE i \in 1..Len(s) :
            CharAt(s, i) \in chars /\ \A j \in 1..(i - 1) : CharAt(s, j) \notin chars
    ELSE Len(s) + 1

\* the place of the last c in s, 0 if none
LastOf(s, c) ==
    IF HasChar(s, c)
    THEN CHOOSE i \in 1..Len(s) :
            CharAt(s, i) = c /\ \A j \in (i + 1)..Len(s) : CharAt(s, j) # c
    ELSE 0

HexUpper == "0123456789ABCDEF"

\* %XX of the UTF-8 bytes of one character
PercentChar(c) ==
    LET n       == Ord(c)
        byte(b) == "%" \o CharAt(HexUpper, (b \div 16) + 1) \o CharAt(HexUpper, (b % 16) + 1)
    IN  IF n < 128 THEN byte(n)
        ELSE byte(192 + (n \div 64)) \o byte(128 + (n % 64))

\* the ASCII characters percent-encoded in a fragment, a query, a path and
\* the user information
FragmentChars == {" ", "\"", "<", ">", Backtick}
QueryChars == {" ", "\"", "#", "<", ">"}
PathChars == FragmentChars \cup {"#", "?", "{", "}"}
UserinfoChars == PathChars \cup {"/", ":", ";", "=", "@", "[", "\\", "]", "^", "|"}

\* the characters a host may not hold
ForbiddenHostChars ==
    {"\t", "\n", "\r", " ", "#", "/", ":", "<", ">", "?", "@", "[", "\\", "]", "^", "|"}

\* s with the characters of chars, and every character that is not
\* printable ASCII, percent-encoded
RECURSIVE PercentEncode(_, _)
PercentEncode(s, chars) ==
    IF s = "" THEN ""
    ELSE (IF CharAt(s, 1) \in chars \/ Ord(CharAt(s, 1)) \notin 32..126
          THEN PercentChar(CharAt(s, 1))
          ELSE CharAt(s, 1))
         \o PercentEncode(Tail(s), chars)

\* user[:password] as the parser writes it, with its @; nothing when both
\* are empty
UserinfoText(u) ==
    LET k        == FirstOf(u, {":"})
        username == Upto(u, k - 1)
        password == From(u, k + 1)
        text     == PercentEncode(username, UserinfoChars)
                        \o (IF password # "" THEN ":" \o PercentEncode(password, UserinfoChars)
                            ELSE "")
    IN  IF text = "" THEN "" ELSE text \o "@"

\* an IPv6 address: its eight 16-bit pieces, read from place p on; pieces are
\* those read so far, compress the number of pieces before the ::, -1 when
\* there was none
ParseIpv6(s) ==
    LET failed == [ok |-> FALSE, pieces |-> <<>>]
        isHex(c) == \E i \in 1..16 : CharAt(HexLower, i) = c \/ CharAt(HexUpper, i) = c
        hexVal(c) ==
            IF \E i \in 1..16 : CharAt(HexLower, i) = c
            THEN (CHOOSE i \in 1..16 : CharAt(HexLower, i) = c) - 1
            ELSE (CHOOSE i \in 1..16 : CharAt(HexUpper, i) = c) - 1
        \* how many hex digits, four at most, stand at place p
        run(p) ==
            CHOOSE l \in 0..4 :
                /\ \A j \in 0..(l - 1) : p + j <= Len(s) /\ isHex(CharAt(s, p + j))
                /\ l = 4 \/ p + l > Len(s) \/ ~isHex(CharAt(s, p + l))
        RECURSIVE value(_, _)
        value(t, acc) ==
            IF t = "" THEN acc ELSE value(Tail(t), acc * 16 + hexVal(CharAt(t, 1)))
        \* one number of a dotted IPv4 ending: digits, no leading zero, at most 255
        isIpv4Piece(t) ==
            /\ t # "" /\ Len(t) <= 3
            /\ \A i \in 1..Len(t) : IsDigit(CharAt(t, i))
            /\ Len(t) > 1 => CharAt(t, 1) # "0"
            /\ DigitsVal(t, 0) <= 255
        \* the end of the address: the pieces after the :: go to the right end
        finish(pieces, compress) ==
            IF compress >= 0
            THEN [ok |-> TRUE,
                  pieces |-> SubSeq(pieces, 1, compress)
                                \o [i \in 1..(8 - Len(pieces)) |-> 0]
                                \o SubSeq(pieces, compress + 1, Len(pieces))]
            ELSE IF Len(pieces) = 8 THEN [ok |-> TRUE, pieces |-> pieces]
            ELSE failed
        \* the dotted IPv4 ending that starts at place p
        dotted(p, pieces, compress) ==
            LET parts == Split(From(s, p), ".")
            IN  IF Len(pieces) > 6 \/ Len(parts) # 4
                      \/ \E i \in 1..Len(parts) : ~isIpv4Piece(parts[i])
                THEN failed
                ELSE finish(pieces \o <<DigitsVal(parts[1], 0) * 256 + DigitsVal(parts[2], 0),
                                        DigitsVal(parts[3], 0) * 256 + DigitsVal(parts[4], 0)>>,
                            compress)
        RECURSIVE from(_, _, _)
        from(p, pieces, compress) ==
            IF p > Len(s) THEN finish(pieces, compress)
            ELSE IF Len(pieces) = 8 THEN failed
            ELSE IF CharAt(s, p) = ":"
            THEN IF compress >= 0 THEN failed
                 ELSE from(p + 1, Append(pieces, 0), Len(pieces) + 1)
            ELSE LET l == run(p)
                     q == p + l
                     v == value(SubSeq(s, p, q - 1), 0)
                 IN  IF q > Len(s) THEN from(q, Append(pieces, v), compress)
                     ELSE IF CharAt(s, q) = "."
                     THEN IF l = 0 THEN failed ELSE dotted(p, pieces, compress)
                     ELSE IF CharAt(s, q) = ":"
                     THEN IF q + 1 > Len(s) THEN failed
                          ELSE from(q + 1, Append(pieces, v), compress)
                     ELSE failed
    IN  IF s # "" /\ CharAt(s, 1) = ":"
        THEN IF Len(s) < 2 \/ CharAt(s, 2) # ":" THEN failed
             ELSE from(3, <<0>>, 1)
        ELSE from(1, <<>>, -1)

\* the address as written: pieces in hex, lower case, no leading zero; the
\* first longest run of two or more zero pieces becomes ::
Ipv6Text(pieces) ==
    LET RECURSIVE hexText(_)
        hexText(n) ==
            IF n < 16 THEN CharAt(HexLower, n + 1)
            ELSE hexText(n \div 16) \o CharAt(HexLower, (n % 16) + 1)
        \* how many pieces from place i on are 0 in a row
        RECURSIVE zeroRun(_)
        zeroRun(i) ==
            IF i > Len(pieces) \/ pieces[i] # 0 THEN 0 ELSE 1 + zeroRun(i + 1)
        hex(a, b) == Join([i \in 1..(b - a + 1) |-> hexText(pieces[a + i - 1])], ":")
        runs      == {i \in 1..8 : zeroRun(i) >= 2}
        start     == CHOOSE i \in runs :
                        \A j \in runs : /\ zeroRun(j) <= zeroRun(i)
                                        /\ zeroRun(j) = zeroRun(i) => i <= j
    IN  IF runs = {} THEN hex(1, 8)
        ELSE hex(1, start - 1) \o "::" \o hex(start + zeroRun(start), 8)

\* the host as the parser writes it
ParseHost(h) ==
    LET bracketed(address) ==
            IF CharAt(h, Len(h)) # "]" \/ ~address.ok THEN UrlFailed("invalid IPv6 address")
            ELSE UrlOk("[" \o Ipv6Text(address.pieces) \o "]")
    IN  IF h # "" /\ CharAt(h, 1) = "[" THEN bracketed(ParseIpv6(SubSeq(h, 2, Len(h) - 1)))
        ELSE IF \E i \in 1..Len(h) : CharAt(h, i) \in ForbiddenHostChars
        THEN UrlFailed("invalid domain character")
        ELSE UrlOk(PercentEncode(h, {}))

\* what follows the host's colon: the port as written back ("" when there
\* are no digits) and, from a backslash on, text left for the path
ParsePort(t) ==
    LET d      == FirstOf(t, {c \in {CharAt(t, i) : i \in 1..Len(t)} : ~IsDigit(c)})
        digits == Upto(t, d - 1)
        left   == From(t, d)
        \* the number the digits give, -1 when they go beyond 65535
        RECURSIVE value(_, _)
        value(u, acc) ==
            IF acc > 65535 THEN -1
            ELSE IF u = "" THEN acc
            ELSE value(Tail(u), acc * 10 + DigitVal(CharAt(u, 1)))
    IN  IF left # "" /\ CharAt(left, 1) # "\\" THEN UrlFailed("invalid port number")
        ELSE IF value(digits, 0) < 0 THEN UrlFailed("invalid port number")
        ELSE [ok |-> TRUE,
              text |-> IF digits = "" THEN "" ELSE ":" \o NatStr(value(digits, 0)),
              reason |-> "", left |-> left]

\* the path as written back: segments percent-encoded, . dropped and ..
\* taking the segment before it
PathText(p) ==
    LET doubleDot == {"..", ".%2e", ".%2E", "%2e.", "%2E.",
                      "%2e%2e", "%2e%2E", "%2E%2e", "%2E%2E"}
        singleDot == {".", "%2e", "%2E"}
        RECURSIVE segments(_, _)
        segments(segs, out) ==
            IF segs = <<>> THEN out
            ELSE LET seg  == PercentEncode(Head(segs), PathChars)
                     last == IF Len(segs) = 1 THEN <<"">> ELSE <<>>
                 IN  IF seg \in doubleDot
                     THEN segments(Tail(segs), SubSeq(out, 1, Len(out) - 1) \o last)
                     ELSE IF seg \in singleDot
                     THEN segments(Tail(segs), out \o last)
                     ELSE segments(Tail(segs), Append(out, seg))
    IN  IF p = "" THEN ""
        ELSE "/" \o Join(segments(Split(IF CharAt(p, 1) = "/" THEN Tail(p) ELSE p, "/"), <<>>),
                         "/")

\* ?query and #fragment as written back; t is "" or begins with ? or #
QueryAndFragment(t) ==
    LET h == FirstOf(t, {"#"})
        q == Upto(t, h - 1)
        f == From(t, h)
    IN  (IF q = "" THEN "" ELSE "?" \o PercentEncode(Tail(q), QueryChars))
            \o (IF f = "" THEN "" ELSE "#" \o PercentEncode(Tail(f), FragmentChars))

\* the place of the colon that ends the host: the first one outside [ ]
HostEnd(hp) ==
    LET inside(i) ==
            LET b == {j \in 1..(i - 1) : CharAt(hp, j) \in {"[", "]"}}
            IN  b # {} /\ CharAt(hp, CHOOSE j \in b : \A k \in b : k <= j) = "["
        ends == {i \in 1..Len(hp) : CharAt(hp, i) = ":" /\ ~inside(i)}
    IN  IF ends = {} THEN Len(hp) + 1 ELSE CHOOSE i \in ends : \A j \in ends : i <= j

\* AnyUrl(url) for a url that begins with clickhouse://, read in the
\* parser's order: the authority (up to the first / ? #), its user
\* information (up to the last @), host and port, then path, query, fragment
AnyUrl(url) ==
    LET written(before, after, p) ==
            UrlOk(before \o PathText(Upto(after, p - 1)) \o QueryAndFragment(From(after, p)))
        checked(userinfo, host, port, hasPort, tail) ==
            IF ~host.ok THEN host
            ELSE IF host.text = "" /\ hasPort THEN UrlFailed("empty host")
            ELSE IF ~port.ok THEN UrlFailed(port.reason)
            ELSE IF host.text = "" /\ userinfo # "" THEN UrlFailed("empty host")
            ELSE written(Scheme \o userinfo \o host.text \o port.text, port.left \o tail,
                         FirstOf(port.left \o tail, {"?", "#"}))
        hostAndPort(userinfo, hostport, e, tail) ==
            checked(userinfo,
                    ParseHost(Upto(hostport, e - 1)),
                    IF e <= Len(hostport) THEN ParsePort(From(hostport, e + 1))
                    ELSE [ok |-> TRUE, text |-> "", reason |-> "", left |-> ""],
                    e <= Len(hostport),
                    tail)
        credentials(authority, at, hostport, tail) ==
            IF at = 1 /\ hostport = "" /\ tail # "" THEN UrlFailed("empty host")
            ELSE hostAndPort(IF at > 1 THEN UserinfoText(Upto(authority, at - 1)) ELSE "",
                             hostport, HostEnd(hostport), tail)
        parts(authority, at, tail) ==
            credentials(authority, at, From(authority, at + 1), tail)
        split(rest, a) ==
            parts(Upto(rest, a - 1), LastOf(Upto(rest, a - 1), "@"), From(rest, a))
        authority(rest) == split(rest, FirstOf(rest, {"/", "?", "#"}))
    IN  authority(Without(From(url, Len(Scheme) + 1), {"\t", "\n", "\r"}))


\* the ValidationError AnyUrl raises, by the message of its one error
UrlError(reason) == Error("ValidationError", "Input should be a valid URL, " \o reason)

\* Resource(uri=AnyUrl(text), ...): the descriptor, its uri as str() gives it
\* back, or AnyUrl's exception
Resource(text, name, description) ==
    LET made(url) ==
            IF url.ok
            THEN Ok([uri         |-> url.text,
                     name        |-> name,
                     mimeType    |-> "text/plain",
                     description |-> description])
            ELSE Failed(UrlError(url.reason))
    IN  made(AnyUrl(text))

\* lines 69-76: the descriptor of a database's table list
TablesResource(database) ==
    Resource(Scheme \o database \o "/tables",
             "Database: " \o database,
             "Tables in database: " \o database)

\* lines 82-87: the descriptor of a table's schema
SchemaResource(database, table) ==
    Resource(Scheme \o database \o "/" \o table \o "/schema",
             "Table: " \o database \o "." \o table,
             "Schema of table: " \o database \o "." \o table)

\* lines 81-89: the descriptors of a database's tables, in the rows' order;
\* the first AnyUrl that raises ends the comprehension
SchemaResources(database, rows) ==
    LET made == [i \in 1..Len(rows) |-> SchemaResource(database, Str(rows[i][1]))]
        bad  == {i \in 1..Len(rows) : made[i].status = "error"}
    IN  IF bad = {} THEN Ok([i \in 1..Len(rows) |-> made[i].value])
        ELSE Failed(made[CHOOSE i \in bad : \A j \in bad : i <= j].error)

\* lines 102-118: what an identifier asks for
ParseIdentifier(uri_str) ==
    IF ~StartsWith(uri_str, Scheme)
    THEN [kind |-> "invalid_scheme", database |-> "", table |-> ""]
    ELSE LET parts == Split(SubSeq(uri_str, Len(Scheme) + 1, Len(uri_str)), "/")
         IN  IF Len(parts) = 2 /\ parts[2] = "tables"
             THEN [kind |-> "tables", database |-> parts[1], table |-> ""]
             ELSE IF Len(parts) = 3 /\ parts[3] = "schema"
             THEN [kind |-> "schema", database |-> parts[1], table |-> parts[2]]
             ELSE [kind |-> "invalid", database |-> "", table |-> ""]

\* line 109: "\n".join(row[0] for row in result.result_rows)
RenderTables(result) ==
    Join([i \in 1..Len(result.result_rows) |-> result.result_rows[i][1].v], "\n")

\* lines 114-115: one "name - type" line per column
RenderSchema(result) ==
    Join([i \in 1..Len(result.result_rows) |->
             Str(result.result_rows[i][1]) \o " - " \o Str(result.result_rows[i][2])],
         "\n")

ToolName == "execute_select_query"

\* lines 125-140
ToolList ==
    <<[name        |-> ToolName,
       description |-> "Execute a SELECT query on the ClickHouse server",
       properties  |-> {"query"},
       required    |-> <<"query">>]>>

TextContent(text) == [type |-> "text", text |-> text]

RejectionText == "Error: Only SELECT queries are allowed."

\* The mutant of PassesGate: SELECT anywhere in the text lets the query through
GateAnywhere(query) == Contains(Upper(Strip(query)), Glyphs("SELECT"))

\* line 155: the read-only gate
PassesGate(query) == StartsWith(Upper(Strip(query)), Glyphs("SELECT"))

\* The mutant of ValidateCall: the query is looked at before the tool name
ValidateQueryFirst(name, arguments) ==
    IF ~TruthyStr(arguments.query)
    THEN [act |-> "raise", error |-> Error("ValueError", "Query is required")]
    ELSE IF name # ToolName
    THEN [act |-> "raise", error |-> Error("ValueError", "Unknown tool: " \o name)]
    ELSE IF ~PassesGate(Get(arguments.query))
    THEN [act |-> "return", error |-> Error("", "")]
    ELSE [act |-> "execute", error |-> Error("", "")]

\* lines 148-156: what call_tool decides before it touches the store
ValidateCall(name, arguments) ==
    IF name # ToolName
    THEN [act |-> "raise", error |-> Error("ValueError", "Unknown tool: " \o name)]
    ELSE IF ~TruthyStr(arguments.query)
    THEN [act |-> "raise", error |-> Error("ValueError", "Query is required")]
    ELSE IF ~PassesGate(Get(arguments.query))
    THEN [act |-> "return", error |-> Error("", "")]
    ELSE [act |-> "execute", error |-> Error("", "")]

\* The mutant of RowText: repr(value) in place of str(value)
RowTextRepr(row) == Join([j \in 1..Len(row) |-> Repr(row[j])], "\t")

\* line 165: one row as text
RowText(row) == Join([j \in 1..Len(row) |-> Str(row[j])], "\t")

\* lines 162-167: the header line, then one line per row
RenderResult(result) ==
    LET header == <<Join(result.column_names, "\t")>>
        output == header \o [i \in 1..Len(result.result_rows) |-> RowText(result.result_rows[i])]
    IN  Join(output, "\n")

\* The mutant of ExecErrorText: the store's message is left out
ExecErrorTextBare(message) == "Error executing query"

\* line 170: the body reporting a failed execution
ExecErrorText(message) == "Error executing query: " \o message

----------------------------------------------------------------------------
(* The inputs the model draws from, and the stores and environments a      *)
(* behaviour may start in.                                                 *)

Column(n, t) == [name |-> n, type |-> t]
Table(n, cols) == [name |-> n, columns |-> cols]
Database(n, ts, denied) == [name |-> n, engine |-> "Atomic", tables |-> ts, denied |-> denied]

TestTable ==
    Table("test_table", <<Column("id", "UUID"), Column("name", "String"), Column("value", "Int32")>>)

\* a server as the tests see it
CatalogMain ==
    <<Database("system", <<Table("tables", <<Column("name", "String")>>)>>, FALSE),
      Database("default", <<TestTable,
                            Table("test_table2", <<Column("id", "Int32")>>),
                            Table("test_table3", <<Column("name", "String")>>)>>, FALSE),
      Database("INFORMATION_SCHEMA", <<>>, FALSE),
      Database("logs", <<>>, FALSE),
      Database("information_schema", <<Table("schemata", <<>>)>>, FALSE)>>

\* databases and tables named like parts of the identifier grammar
CatalogNames ==
    <<Database("tables", <<Table("schema", <<Column("c", "String")>>),
                           Table("tables", <<Column("c", "String")>>)>>, FALSE),
      Database("system", <<>>, FALSE),
      Database("schema", <<Table("a/b", <<Column("c", "String")>>)>>, FALSE)>>

\* a database whose tables the user may not list
CatalogDenied ==
    <<Database("default", <<Table("t", <<Column("id", "Int32")>>)>>, FALSE),
      Database("secret", <<Table("s", <<>>)>>, TRUE)>>

CatalogEmpty == <<Database("system", <<>>, FALSE)>>

\* table names AnyUrl does not write back as they are
CatalogSpelled ==
    <<Database("d", <<Table("my table", <<Column("c", "String")>>),
                      Table("..", <<Column("c", "String")>>)>>, FALSE)>>

\* a database name AnyUrl refuses, after one it takes
CatalogRefused ==
    <<Database("d", <<Table("t", <<Column("c", "String")>>)>>, FALSE),
      Database("my db", <<Table("t", <<Column("c", "String")>>)>>, FALSE)>>

Catalogs == {CatalogMain, CatalogNames, CatalogDenied, CatalogEmpty, CatalogSpelled,
             CatalogRefused}

\* the i-th row the tests insert into test_table: a uuid4, "Test i", 10 * i
TestRow(i) ==
    <<UuidV("00000000-0000-4000-8000-00000000000" \o IntStr(i)),
      StrV("Test " \o IntStr(i)),
      IntV(10 * i)>>

\* test_data, in the order `ORDER BY value` gives
TestData == QueryOk(<<"id", "name", "value">>, [i \in 1..3 |-> TestRow(i)])

\* the i-th row of a result whose values str() has to tell apart: a negative
\* number, a string with a newline and a tab in it, a null, an empty string
EdgeRow(i) ==
    <<IntV(15 - 10 * i),
      IF i % 2 = 1 THEN StrV("it's") ELSE StrV("two\nlines\tand a tab"),
      IF i % 2 = 1 THEN NoneV ELSE StrV("")>>

Answers ==
    {QueryOk(<<"n", "text", "opt">>, [i \in 1..n |-> EdgeRow(i)]) : n \in 0..MaxRows}
        \cup {TestData,
              QueryOk(<<>>, <<>>),
              QueryErr("Syntax error: failed at position 8"),
              QueryErr("Timeout exceeded")}

StoreDown == [up |-> FALSE, catalog |-> CatalogMain, answer |-> QueryErr("Timeout exceeded")]

Stores ==
    {[up |-> TRUE, catalog |-> c, answer |-> a] : c \in Catalogs, a \in Answers}
        \cup {StoreDown}

EnvNames ==
    {"CLICKHOUSE_HOST", "CLICKHOUSE_PORT", "CLICKHOUSE_USER",
     "CLICKHOUSE_PASSWORD", "CLICKHOUSE_DATABASE"}

EnvUnset == [n \in EnvNames |-> None]

\* the environment the test fixture sets
EnvTest ==
    [EnvUnset EXCEPT !["CLICKHOUSE_HOST"] = Some("localhost"),
                     !["CLICKHOUSE_PORT"] = Some("49153"),
                     !["CLICKHOUSE_USER"] = Some("default"),
                     !["CLICKHOUSE_PASSWORD"] = Some("test"),
                     !["CLICKHOUSE_DATABASE"] = Some("default")]

EnvBadPort == [EnvUnset EXCEPT !["CLICKHOUSE_PORT"] = Some("http")]

\* a port text int() reads though it is not digits alone
EnvSignedPort == [EnvUnset EXCEPT !["CLICKHOUSE_PORT"] = Some(" +9_440\n")]

\* a port text int() refuses, and whose repr() takes double quotes
EnvQuotedPort == [EnvUnset EXCEPT !["CLICKHOUSE_PORT"] = Some("'8123_")]

\* a port text that ends in U+001F: strip() would remove it, int() does not,
\* and repr() writes it as \x1f
EnvSeparatorPort == [EnvUnset EXCEPT !["CLICKHOUSE_PORT"] = Some("8123" \o Chr(31))]

Envs == {EnvUnset, EnvTest, EnvBadPort, EnvSignedPort, EnvQuotedPort, EnvSeparatorPort}

\* the server of the tests, once they have made their tables and rows
StoreMain == [up |-> TRUE, catalog |-> CatalogMain, answer |-> TestData]

StoreDenied ==
    [up |-> TRUE, catalog |-> CatalogDenied, answer |-> QueryErr("Timeout exceeded")]

RECURSIVE Pads(_)
\* the whitespace strings of at most n characters
Pads(n) ==
    IF n = 0 THEN {""}
    ELSE Pads(n - 1) \cup {c \o p : c \in {" ", "\n", Chr(11)}, p \in Pads(n - 1)}

QueryWords ==
    {"", "SELECT", "select", "SeLeCt", "SELEC", "xSELECT",
     "INSERT INTO test_table (id, name, value) VALUES (1, 'Invalid', 100)",
     "DROP TABLE test_table"}

QueryTails == {"", " * FROM test_table ORDER BY value ", "ED"}

Queries == {p \o w \o t : p \in Pads(MaxPad), w \in QueryWords, t \in QueryTails}

ToolCalls ==
    {[name |-> ToolName, arguments |-> [query |-> q]] :
        q \in {None} \cup {Some(x) : x \in Queries}}
    \cup
    {[name |-> "execute_query", arguments |-> [query |-> q]] :
        q \in {None, Some(""), Some("SELECT 1"), Some("DROP TABLE test_table")}}

UriInputs ==
    {"clickhouse://default/tables",
     "clickhouse://default/test_table/schema",
     "clickhouse://default/test_table2/schema",
     "clickhouse://default/test_table3/schema",
     "clickhouse://default/invalid",
     "invalid://default/test_table/schema",
     "clickhouse://non_existent_db/tables",
     "clickhouse://default/non_existent_table/schema",
     "clickhouse://secret/tables",
     "clickhouse://secret/s/schema",
     "clickhouse://default",
     "clickhouse://default/schema",
     "clickhouse://default/tables/",
     "clickhouse://default/test_table/schema/extra",
     "clickhouse://tables/schema/schema",
     "clickhouse://schema/a/b/schema"}

ClientArgs ==
    [host     : {None, Some(""), Some("ch.example")},
     port     : {None, Some(0), Some(9440)},
     username : {None, Some("alice")},
     password : {None, Some(""), Some("secret")},
     database : {None, Some("analytics")}]

\* what two concurrent invocations are given
ConcToolCalls ==
    {[name |-> ToolName, arguments |-> [query |-> Some(q)]] :
        q \in {"SELECT 1", "DROP TABLE test_table"}}

ConcUris ==
    {"clickhouse://default/tables", "clickhouse://default/invalid",
     "clickhouse://default/non_existent_table/schema"}

ConcClientArgs == {NoArgs}

----------------------------------------------------------------------------
(* The state: each worker runs one invocation at a time.  frame[w] is the  *)
(* invocation's activation: where it is (pc, a line of server.py), its     *)
(* arguments and locals, what it exchanged with the store (io) and, once   *)
(* it is over, its outcome.  A client handle is a positive number; 0 is no *)
(* client.                                                                 *)

Workers == 1..NumWorkers

Pending == [status |-> "pending", value |-> <<>>, error |-> NoError]

IdleFrame ==
    [pc |-> "idle", op |-> "", uri |-> "", name |-> "", arguments |-> [query |-> None],
     cargs |-> NoArgs, client |-> 0, params |-> None, dbRows |-> <<>>,
     resources |-> <<>>, io |-> <<>>, outcome |-> Pending]

\* The mutant of NewHandle: get_clickhouse_client memoised, one client for all
CachedHandle(n) == IF n = 0 THEN 1 ELSE n

\* lines 41-47: get_client builds a client of its own on every call
NewHandle(n) == n + 1

\* a call that returns: its locals, the client among them, go out of scope
ReleaseLocals(f) == [f EXCEPT !.client = 0, !.dbRows = <<>>, !.resources = <<>>]

\* `return value`
Return(f, value) ==
    ReleaseLocals([f EXCEPT !.pc = "done",
                            !.outcome = [status |-> "ok", value |-> value, error |-> NoError]])

\* `raise`, or an exception that no handler of the call catches: the call is
\* over, but the exception's traceback refers to the call's frame, so the
\* locals, the client among them, live on until the caller drops the exception
Raise(f, err) ==
    [f EXCEPT !.pc = "done",
              !.outcome = [status |-> "error", value |-> <<>>, error |-> err]]

Connect(h) == [ev |-> "connect", handle |-> h, sql |-> ""]
Query(h, sql) == [ev |-> "query", handle |-> h, sql |-> sql]

\* invocations that have yet to ask for their client
Waiting == {w \in Workers : frame[w].pc \in {"L36", "L56", "L98", "L146", "L159"}}

CanConnect == nextHandle + Cardinality(Waiting) < MaxConnections

Invoke(w, f) ==
    /\ frame[w].pc = "idle"
    /\ frame' = [frame EXCEPT ![w] = f]
    /\ UNCHANGED <<env, store, nextHandle>>

Step(w, f) ==
    /\ frame' = [frame EXCEPT ![w] = f]
    /\ UNCHANGED <<env, store, nextHandle>>

\* the transport dispatches list_resources()
InvokeListResources(w) ==
    /\ CanConnect
    /\ Invoke(w, [IdleFrame EXCEPT !.pc = "L56", !.op = "list_resources"])

\* the transport dispatches read_resource(uri)
InvokeReadResource(w, uri) ==
    /\ CanConnect
    /\ Invoke(w, [IdleFrame EXCEPT !.pc = "L98", !.op = "read_resource", !.uri = uri])

\* the transport dispatches list_tools()
InvokeListTools(w) ==
    /\ frame[w].pc = "idle"
    /\ Invoke(w, [IdleFrame EXCEPT !.pc = "L124", !.op = "list_tools"])

\* the transport dispatches call_tool(name, arguments)
InvokeCallTool(w, call) ==
    /\ CanConnect
    /\ Invoke(w, [IdleFrame EXCEPT !.pc = "L146", !.op = "call_tool",
                                   !.name = call.name, !.arguments = call.arguments])

\* a caller (the test fixture) calls get_clickhouse_client(...) itself
InvokeGetClient(w, args) ==
    /\ CanConnect
    /\ Invoke(w, [IdleFrame EXCEPT !.pc = "L36", !.op = "get_clickhouse_client",
                                   !.cargs = args])

\* lines 27-47, reached from lines 56, 98 and 159 or called directly
AcquireClient(w) ==
    LET f    == frame[w]
        args == IF f.op = "get_clickhouse_client" THEN f.cargs ELSE NoArgs
        fail == ClientFailure(args, env, store)
        h    == NewHandle(nextHandle)
        g    == [f EXCEPT !.io = Append(f.io, Connect(IF IsNone(fail) THEN h ELSE 0))]
        conf == ResolveConfig(args, env)
        \* int() raises before get_client is reached: nothing is sent
        tried == IF PortRaises(args, env) THEN f ELSE g
    IN  /\ f.pc \in {"L36", "L56", "L98", "L159"}
        /\ UNCHANGED <<env, store>>
        /\ IF ~IsNone(fail)
           THEN /\ nextHandle' = nextHandle
                /\ frame' = [frame EXCEPT ![w] =
                        IF f.pc = "L159"
                        THEN Return(tried, <<TextContent(ExecErrorText(Get(fail).msg))>>)
                        ELSE Raise(tried, Get(fail))]
           ELSE /\ nextHandle' = h
                /\ frame' = [frame EXCEPT ![w] =
                        IF f.pc = "L36"
                        THEN Return(g, [handle |-> h, params |-> conf])
                        ELSE [g EXCEPT !.client = h, !.params = Some(conf),
                                       !.pc = CASE f.pc = "L56" -> "L66"
                                                [] f.pc = "L98" -> "L99"
                                                [] OTHER -> "L160"]]


\* line 66: the database query
QueryDatabases(w) ==
    LET f == frame[w]
        r == StoreQuery(store, DbQuery)
        g == [f EXCEPT !.io = Append(f.io, Query(f.client, DbQuery))]
    IN  /\ f.pc = "L66"
        /\ Step(w, IF r.ok THEN [g EXCEPT !.pc = "L67", !.dbRows = r.result_rows]
                   ELSE Raise(g, Error("DatabaseError", r.message)))

\* lines 67-90: one turn of the loop over the databases
ListDatabase(w) ==
    LET f        == frame[w]
        database == Str(Head(f.dbRows)[1])
        sql      == ShowTablesPrefix \o database
        r        == StoreQuery(store, sql)
        first    == TablesResource(database)
        tables   == SchemaResources(database, r.result_rows)
        g        == [f EXCEPT !.io = Append(f.io, Query(f.client, sql)),
                              !.resources = Append(f.resources, first.value)]
    IN  /\ f.pc = "L67"
        /\ f.dbRows # <<>>
        /\ Step(w, IF first.status = "error" THEN Raise(f, first.error)
                   ELSE IF ~r.ok THEN Raise(g, Error("DatabaseError", r.message))
                   ELSE IF tables.status = "error" THEN Raise(g, tables.error)
                   ELSE [g EXCEPT !.dbRows = Tail(f.dbRows),
                                  !.resources = g.resources \o tables.value])

\* line 92
ListReturn(w) ==
    LET f == frame[w]
    IN  /\ f.pc = "L67"
        /\ f.dbRows = <<>>
        /\ Step(w, Return(f, f.resources))

\* lines 99-118
ReadDispatch(w) ==
    LET f      == frame[w]
        target == ParseIdentifier(f.uri)
        sql    == IF target.kind = "tables" THEN ShowTablesPrefix \o target.database
                  ELSE DescribePrefix \o target.database \o "." \o target.table
        r      == StoreQuery(store, sql)
        g      == [f EXCEPT !.io = Append(f.io, Query(f.client, sql))]
    IN  /\ f.pc = "L99"
        /\ Step(w, CASE target.kind = "invalid_scheme" ->
                          Raise(f, Error("ValueError", "Invalid URI scheme: " \o f.uri))
                     [] target.kind = "invalid" ->
                          Raise(f, Error("ValueError", "Invalid resource URI: " \o f.uri))
                     [] target.kind = "tables" ->
                          IF r.ok THEN Return(g, RenderTables(r))
                          ELSE Raise(g, Error("DatabaseError", r.message))
                     [] OTHER ->
                          IF r.ok THEN Return(g, RenderSchema(r))
                          ELSE Raise(g, Error("DatabaseError", r.message)))

\* lines 124-140
ListTools(w) ==
    /\ frame[w].pc = "L124"
    /\ Step(w, Return(frame[w], ToolList))

\* lines 146-156
CallToolValidate(w) ==
    LET f == frame[w]
        v == ValidateCall(f.name, f.arguments)
    IN  /\ f.pc = "L146"
        /\ Step(w, CASE v.act = "raise" -> Raise(f, v.error)
                     [] v.act = "return" -> Return(f, <<TextContent(RejectionText)>>)
                     [] OTHER -> [f EXCEPT !.pc = "L159"])

\* lines 160-170
CallToolExecute(w) ==
    LET f   == frame[w]
        sql == Get(f.arguments.query)
        r   == StoreQuery(store, sql)
        g   == [f EXCEPT !.io = Append(f.io, Query(f.client, sql))]
    IN  /\ f.pc = "L160"
        /\ Step(w, IF r.ok THEN Return(g, <<TextContent(RenderResult(r))>>)
                   ELSE Return(g, <<TextContent(ExecErrorText(r.message))>>))

\* the caller takes the response, or drops the exception and with it what
\* the exception held; the worker is free again
Finish(w) ==
    /\ frame[w].pc = "done"
    /\ Step(w, IdleFrame)

----------------------------------------------------------------------------
(* Specifications.  Spec: one invocation at a time, every input.  SpecConc:*)
(* NumWorkers invocations at a time, interleaved at the store round trips. *)

Init ==
    /\ \/ env = EnvUnset /\ store \in Stores
       \/ env \in Envs /\ store \in {StoreMain, StoreDown}
    /\ frame = [w \in Workers |-> IdleFrame]
    /\ nextHandle = 0

Next ==
    \E w \in {1} :
        \/ InvokeListResources(w)
        \/ \E uri \in UriInputs : InvokeReadResource(w, uri)
        \/ InvokeListTools(w)
        \/ \E call \in ToolCalls : InvokeCallTool(w, call)
        \/ \E args \in ClientArgs : InvokeGetClient(w, args)
        \/ AcquireClient(w)
        \/ QueryDatabases(w)
        \/ ListDatabase(w)
        \/ ListReturn(w)
        \/ ReadDispatch(w)
        \/ ListTools(w)
        \/ CallToolValidate(w)
        \/ CallToolExecute(w)
        \/ Finish(w)

Spec == Init /\ [][Next]_vars

InitConc ==
    /\ env = EnvUnset
    /\ store \in {StoreMain, StoreDenied, StoreDown}
    /\ frame = [w \in Workers |-> IdleFrame]
    /\ nextHandle = 0

NextConc ==
    \E w \in Workers :
        \/ InvokeListResources(w)
        \/ \E uri \in ConcUris : InvokeReadResource(w, uri)
        \/ InvokeListTools(w)
        \/ \E call \in ConcToolCalls : InvokeCallTool(w, call)
        \/ \E args \in ConcClientArgs : InvokeGetClient(w, args)
        \/ AcquireClient(w)
        \/ QueryDatabases(w)
        \/ ListDatabase(w)
        \/ ListReturn(w)
        \/ ReadDispatch(w)
        \/ ListTools(w)
        \/ CallToolValidate(w)
        \/ CallToolExecute(w)
        \/ Finish(w)

SpecConc == InitConc /\ [][NextConc]_vars

----------------------------------------------------------------------------
(* Each entry point run from its first line to its last with nothing else  *)
(* running: the outcome of one invocation on its own.                      *)

RECURSIVE ListLoop(_, _, _)
\* lines 67-92 from the rows still to visit and the resources gathered so far
ListLoop(st, rows, resources) ==
    IF rows = <<>> THEN Ok(resources)
    ELSE LET database == Str(Head(rows)[1])
             r        == StoreQuery(st, ShowTablesPrefix \o database)
             first    == TablesResource(database)
             tables   == SchemaResources(database, r.result_rows)
         IN  IF first.status = "error" THEN first
             ELSE IF ~r.ok THEN Failed(Error("DatabaseError", r.message))
             ELSE IF tables.status = "error" THEN tables
             ELSE ListLoop(st, Tail(rows), Append(resources, first.value) \o tables.value)

\* list_resources(), lines 53-92
ListResourcesAlone(e, st) ==
    IF ~IsNone(ClientFailure(NoArgs, e, st)) THEN Failed(Get(ClientFailure(NoArgs, e, st)))
    ELSE LET r == StoreQuery(st, DbQuery)
         IN  IF ~r.ok THEN Failed(Error("DatabaseError", r.message))
             ELSE ListLoop(st, r.result_rows, <<>>)

\* read_resource(uri), lines 95-118
ReadResourceAlone(uri, e, st) ==
    LET target == ParseIdentifier(uri)
        r == StoreQuery(st, IF target.kind = "tables"
                            THEN ShowTablesPrefix \o target.database
                            ELSE DescribePrefix \o target.database \o "." \o target.table)
    IN  IF ~IsNone(ClientFailure(NoArgs, e, st)) THEN Failed(Get(ClientFailure(NoArgs, e, st)))
        ELSE IF target.kind = "invalid_scheme"
        THEN Failed(Error("ValueError", "Invalid URI scheme: " \o uri))
        ELSE IF target.kind = "invalid"
        THEN Failed(Error("ValueError", "Invalid resource URI: " \o uri))
        ELSE IF ~r.ok THEN Failed(Error("DatabaseError", r.message))
        ELSE IF target.kind = "tables" THEN Ok(RenderTables(r))
        ELSE Ok(RenderSchema(r))

\* call_tool(name, arguments), lines 143-170
CallToolAlone(name, arguments, e, st) ==
    LET v == ValidateCall(name, arguments)
        r == StoreQuery(st, Get(arguments.query))
    IN  IF v.act = "raise" THEN Failed(v.error)
        ELSE IF v.act = "return" THEN Ok(<<TextContent(RejectionText)>>)
        ELSE IF ~IsNone(ClientFailure(NoArgs, e, st))
        THEN Ok(<<TextContent(ExecErrorText(Get(ClientFailure(NoArgs, e, st)).msg))>>)
        ELSE IF ~r.ok THEN Ok(<<TextContent(ExecErrorText(r.message))>>)
        ELSE Ok(<<TextContent(RenderResult(r))>>)

\* the outcome of the invocation in activation f, run alone; of a client
\* it tells the parameters, not which handle it got
AloneOutcome(f, e, st) ==
    CASE f.op = "list_resources" -> ListResourcesAlone(e, st)
      [] f.op = "read_resource" -> ReadResourceAlone(f.uri, e, st)
      [] f.op = "list_tools" -> Ok(ToolList)
      [] f.op = "call_tool" -> CallToolAlone(f.name, f.arguments, e, st)
      [] OTHER ->
            IF ~IsNone(ClientFailure(f.cargs, e, st))
            THEN Failed(Get(ClientFailure(f.cargs, e, st)))
            ELSE Ok(ResolveConfig(f.cargs, e))

\* the outcome activation f ended with, a client reduced to its parameters
Observed(f) ==
    IF f.op = "get_clickhouse_client" /\ f.outcome.status = "ok"
    THEN Ok(f.outcome.value.params)
    ELSE f.outcome

Done(w, op) == frame[w].pc = "done" /\ frame[w].op = op

----------------------------------------------------------------------------
(* The claims.                                                             *)

\* the query of activation f is a non-empty string
HasQuery(f) == ~IsNone(f.arguments.query) /\ Get(f.arguments.query) # ""

\* the whitespace-stripped, upper-cased text of q begins with SELECT
BeginsWithSelect(q) ==
    LET t == Upper(Strip(q))
    IN  Len(t) >= 6 /\ SubSeq(t, 1, 6) = <<"S", "E", "L", "E", "C", "T">>

\* activation f is a call of execute_select_query that the gate lets through
Admitted(f) ==
    f.op = "call_tool" /\ f.name = "execute_select_query" /\ HasQuery(f)
        /\ BeginsWithSelect(Get(f.arguments.query))

\* C1: a call of execute_select_query with a non-empty query whose stripped,
\* upper-cased text does not start with SELECT returns exactly one text block
\* saying "Error: Only SELECT queries are allowed.", and has opened no
\* connection and sent no query.
C1_ReadOnlyGate ==
    \A w \in Workers :
        (/\ Done(w, "call_tool")
         /\ frame[w].name = "execute_select_query"
         /\ HasQuery(frame[w])
         /\ ~BeginsWithSelect(Get(frame[w].arguments.query)))
        => /\ frame[w].outcome.status = "ok"
           /\ frame[w].outcome.value =
                  <<[type |-> "text", text |-> "Error: Only SELECT queries are allowed."]>>
           /\ frame[w].io = <<>>

\* a rejected statement that has SELECT inside it, after leading whitespace
C1_Witness ==
    \E w \in Workers :
        /\ Done(w, "call_tool")
        /\ frame[w].name = "execute_select_query"
        /\ frame[w].arguments.query = Some(" xSELECT * FROM test_table ORDER BY value ")
        /\ frame[w].outcome.value = <<TextContent(RejectionText)>>

\* C9: call_tool fails in exactly two cases, in this order: an unknown tool
\* name (whatever the arguments), then an absent or empty query; neither
\* contacts the store.  Every other call returns one text block.
C9_ProtocolFailures ==
    \A w \in Workers :
        Done(w, "call_tool") =>
            IF frame[w].name # "execute_select_query"
            THEN /\ frame[w].outcome.status = "error"
                 /\ frame[w].outcome.error =
                        [type |-> "ValueError", msg |-> "Unknown tool: " \o frame[w].name]
                 /\ frame[w].io = <<>>
            ELSE IF ~HasQuery(frame[w])
            THEN /\ frame[w].outcome.status = "error"
                 /\ frame[w].outcome.error =
                        [type |-> "ValueError", msg |-> "Query is required"]
                 /\ frame[w].io = <<>>
            ELSE /\ frame[w].outcome.status = "ok"
                 /\ Len(frame[w].outcome.value) = 1
                 /\ frame[w].outcome.value[1].type = "text"

\* an unknown tool called with a statement the gate would reject fails as an
\* unknown tool
C9_Witness ==
    \E w \in Workers :
        /\ Done(w, "call_tool")
        /\ frame[w].name = "execute_query"
        /\ frame[w].arguments.query = Some("DROP TABLE test_table")
        /\ frame[w].outcome.status = "error"
        /\ frame[w].io = <<>>

\* the message of the failure an admitted query meets, if it meets one:
\* the client cannot be made, or the store refuses the query
ExecutionFailure ==
    IF ~IsNone(ClientFailure(NoArgs, env, store)) THEN Some(Get(ClientFailure(NoArgs, env, store)).msg)
    ELSE IF ~store.answer.ok THEN Some(store.answer.message)
    ELSE None

\* C3 as stated: an admitted query that fails during execution returns one
\* text block "Error: executing query: {message}".
C3_AsStated ==
    \A w \in Workers :
        (Done(w, "call_tool") /\ Admitted(frame[w]) /\ ~IsNone(ExecutionFailure))
        => /\ frame[w].outcome.status = "ok"
           /\ frame[w].outcome.value =
                  <<[type |-> "text",
                     text |-> "Error: executing query: " \o Get(ExecutionFailure)]>>

\* C3 amended: an admitted query that fails during execution returns one
\* text block "Error executing query: {message}" (no colon after "Error").
C3_ExecutionErrorIsContent ==
    \A w \in Workers :
        (Done(w, "call_tool") /\ Admitted(frame[w]) /\ ~IsNone(ExecutionFailure))
        => /\ frame[w].outcome.status = "ok"
           /\ frame[w].outcome.value =
                  <<[type |-> "text",
                     text |-> "Error executing query: " \o Get(ExecutionFailure)]>>

\* an admitted query that the store timed out on
C3_Witness ==
    \E w \in Workers :
        /\ Done(w, "call_tool")
        /\ Admitted(frame[w])
        /\ store.up
        /\ store.answer = QueryErr("Timeout exceeded")
        /\ Len(frame[w].io) = 2
        /\ frame[w].outcome.status = "ok"


\* parts with sep put between every two of them, as one sequence of pieces
Interleave(parts, sep) ==
    [k \in 1..(IF parts = <<>> THEN 0 ELSE 2 * Len(parts) - 1) |->
        IF k % 2 = 1 THEN parts[(k + 1) \div 2] ELSE sep]

RECURSIVE Concat(_)
\* the pieces of a sequence written one after the other
Concat(pieces) == IF pieces = <<>> THEN "" ELSE Head(pieces) \o Concat(Tail(pieces))

\* the display string of a row scalar: a number in decimal, a string as it
\* is, a UUID in its canonical text, a null as None
Display(value) ==
    CASE value.t = "int" ->
            IF value.v < 0 THEN "-" \o NatStr(-value.v) ELSE NatStr(value.v)
      [] value.t = "str" -> value.v
      [] value.t = "UUID" -> value.v
      [] OTHER -> "None"

\* the lines the claim describes for column names C and rows R: the
\* tab-joined column names, then each row's tab-joined display strings
TableLines(C, R) ==
    <<Concat(Interleave(C, "\t"))>> \o
        [i \in 1..Len(R) |->
            Concat(Interleave([j \in 1..Len(R[i]) |-> Display(R[i][j])], "\t"))]

\* those lines, newline-joined
TableText(C, R) == Concat(Interleave(TableLines(C, R), "\n"))

\* the newline-separated lines of a text: what stands between one newline
\* and the next
Lines(text) ==
    LET breaks   == {i \in 1..Len(text) : CharAt(text, i) = "\n"}
        break(k) == CHOOSE i \in breaks : Cardinality({j \in breaks : j < i}) = k - 1
    IN  [k \in 1..(Cardinality(breaks) + 1) |->
            SubSeq(text,
                   IF k = 1 THEN 1 ELSE break(k - 1) + 1,
                   IF k = Cardinality(breaks) + 1 THEN Len(text) ELSE break(k) - 1)]

\* no column name and no display string of a value holds a newline
NewlineFree(C, R) ==
    \A i \in 1..Len(TableLines(C, R)) : ~HasChar(TableLines(C, R)[i], "\n")

\* C7 as stated: an admitted query that executes with column names C and
\* rows R returns one text block of 1 + |R| newline-separated lines: the
\* tab-joined column names, then line i+1 the tab-joined display strings of
\* row i, in the store's order.
C7_AsStated ==
    \A w \in Workers :
        (Done(w, "call_tool") /\ Admitted(frame[w]) /\ IsNone(ExecutionFailure))
        => /\ frame[w].outcome.status = "ok"
           /\ Len(frame[w].outcome.value) = 1
           /\ frame[w].outcome.value[1].type = "text"
           /\ Lines(frame[w].outcome.value[1].text) =
                  TableLines(store.answer.column_names, store.answer.result_rows)

\* C7: an admitted query that executes with column names C and rows R
\* returns one text block whose text is the newline-join of the tab-joined
\* column names and of each row's tab-joined display strings, in the store's
\* order; it has the 1 + |R| lines of the claim, line i+1 being row i, when
\* no name or value holds a newline, and more than 1 + |R| lines otherwise.
C7_ResultRendering ==
    \A w \in Workers :
        (Done(w, "call_tool") /\ Admitted(frame[w]) /\ IsNone(ExecutionFailure))
        => LET C    == store.answer.column_names
               R    == store.answer.result_rows
               text == frame[w].outcome.value[1].text
           IN  /\ frame[w].outcome.status = "ok"
               /\ Len(frame[w].outcome.value) = 1
               /\ frame[w].outcome.value[1].type = "text"
               /\ text = TableText(C, R)
               /\ NewlineFree(C, R) => Lines(text) = TableLines(C, R)
               /\ ~NewlineFree(C, R) => Len(Lines(text)) > 1 + Len(R)

\* an admitted query answered with as many rows as the store holds, a
\* negative number, a null and an empty string among their values, and a
\* string with a newline in it, which makes the body longer than 1 + |R|
\* lines
C7_Witness ==
    \E w \in Workers :
        /\ Done(w, "call_tool")
        /\ Admitted(frame[w])
        /\ IsNone(ExecutionFailure)
        /\ Len(store.answer.result_rows) = MaxRows
        /\ MaxRows >= 2
        /\ ~NewlineFree(store.answer.column_names, store.answer.result_rows)
        /\ Len(Split(frame[w].outcome.value[1].text, "\t")) > 3
        /\ Len(Lines(frame[w].outcome.value[1].text)) > 1 + MaxRows

\* the places of the catalog whose database is not a reserved one
Listed == {i \in 1..Len(store.catalog) :
              store.catalog[i].name \notin {"system", "information_schema", "INFORMATION_SCHEMA"}}

\* the descriptors list_resources owes for the listed databases before place i
RECURSIVE OwedBefore(_)
OwedBefore(i) ==
    IF i <= 1 THEN 0
    ELSE OwedBefore(i - 1)
           + (IF (i - 1) \in Listed THEN 1 + Len(store.catalog[i - 1].tables) ELSE 0)

\* list_resources can complete: the store is reachable and lets every listed
\* database be read
Listable ==
    IsNone(ClientFailure(NoArgs, env, store))
        /\ \A i \in Listed : ~store.catalog[i].denied

\* C6: list_resources returns, for each non-reserved database in the store's
\* order, clickhouse://{db}/tables followed by clickhouse://{db}/{table}/schema
\* for each of its tables in the store's order, and nothing else.
C6_ListingSequence ==
    \A w \in Workers :
        (Done(w, "list_resources") /\ Listable)
        => LET out == frame[w].outcome.value
           IN  /\ frame[w].outcome.status = "ok"
               /\ Len(out) = OwedBefore(Len(store.catalog) + 1)
               /\ \A i \in Listed :
                     LET db == store.catalog[i]
                     IN  /\ out[OwedBefore(i) + 1].uri = "clickhouse://" \o db.name \o "/tables"
                         /\ \A t \in 1..Len(db.tables) :
                               out[OwedBefore(i) + 1 + t].uri =
                                   "clickhouse://" \o db.name \o "/" \o db.tables[t].name \o "/schema"

\* C10 as stated: every identifier list_resources emits parses, in
\* read_resource, to the request for the database or table it was emitted
\* for, whatever the names are.
C10_RoundTrip ==
    \A w \in Workers :
        (Done(w, "list_resources") /\ frame[w].outcome.status = "ok")
        => LET out == frame[w].outcome.value
           IN  \A i \in Listed :
                  LET db == store.catalog[i]
                  IN  /\ ParseIdentifier(out[OwedBefore(i) + 1].uri) =
                             [kind |-> "tables", database |-> db.name, table |-> ""]
                      /\ \A t \in 1..Len(db.tables) :
                            ParseIdentifier(out[OwedBefore(i) + 1 + t].uri) =
                                [kind |-> "schema", database |-> db.name,
                                 table |-> db.tables[t].name]

\* the identifier is of neither shape: not the scheme, then two parts ending
\* in tables or three ending in schema
Shapeless(uri) ==
    LET parts == Split(SubSeq(uri, 14, Len(uri)), "/")
    IN  \/ SubSeq(uri, 1, 13) # "clickhouse://"
        \/ ~ \/ Len(parts) = 2 /\ parts[2] = "tables"
             \/ Len(parts) = 3 /\ parts[3] = "schema"

\* C2 as stated: read_resource of an identifier of neither shape fails as an
\* invalid identifier and has opened no connection and sent no query.
C2_RejectedBeforeStore ==
    \A w \in Workers :
        (Done(w, "read_resource") /\ Shapeless(frame[w].uri))
        => /\ frame[w].outcome.status = "error"
           /\ frame[w].outcome.error.type = "ValueError"
           /\ frame[w].io = <<>>

\* the value the claim gives one parameter: the argument when it is not
\* None, else the environment variable when set, else the default
FirstNonNull(arg, variable, default) ==
    IF arg # None THEN arg[1] ELSE IF env[variable] # None THEN env[variable][1] ELSE default

\* C5 as stated: each parameter of the client is the explicit argument
\* whenever that is not None (an empty string and 0 included), else the
\* environment variable if set, else the default.
C5_FirstNonNullWins ==
    \A w \in Workers :
        (Done(w, "get_clickhouse_client") /\ frame[w].outcome.status = "ok")
        => LET a == frame[w].cargs
               p == frame[w].outcome.value.params
           IN  /\ p.host = FirstNonNull(a.host, "CLICKHOUSE_HOST", "localhost")
               /\ p.port = IF a.port # None THEN a.port[1]
                           ELSE IF env["CLICKHOUSE_PORT"] # None
                           THEN ParseInt(env["CLICKHOUSE_PORT"][1])
                           ELSE 8123
               /\ p.username = FirstNonNull(a.username, "CLICKHOUSE_USER", "default")
               /\ p.password = FirstNonNull(a.password, "CLICKHOUSE_PASSWORD", "")
               /\ p.database = FirstNonNull(a.database, "CLICKHOUSE_DATABASE", "default")


\* the clients activation f has talked to the store through
HandlesOf(f) == {f.io[k].handle : k \in 1..Len(f.io)} \ {0}

\* the clients activation f has made
MadeBy(f) == {f.io[k].handle : k \in {j \in 1..Len(f.io) : f.io[j].ev = "connect"}} \ {0}

Handlers == {"list_resources", "read_resource", "call_tool"}

\* C4 as stated: every connection list_resources, read_resource or
\* call_tool acquires is created within that call and released by the end of
\* it, whether the call succeeds or fails: a handler that is over holds no
\* client, a client a handler holds or has sent a query through is the one
\* it made itself, and no two calls have made the same client.
C4_ConnectionLifecycle ==
    \A w \in Workers :
        frame[w].op \in Handlers =>
            /\ frame[w].pc = "done" => frame[w].client = 0
            /\ frame[w].client # 0 => frame[w].client \in MadeBy(frame[w])
            /\ HandlesOf(frame[w]) \subseteq MadeBy(frame[w])
            /\ Cardinality(MadeBy(frame[w])) <= 1
            /\ \A v \in Workers \ {w} : MadeBy(frame[w]) \cap MadeBy(frame[v]) = {}

\* an invocation that is over ended as it would have on its own, and no
\* client serves two invocations in flight
C8_Independent ==
    \A w \in Workers :
        /\ frame[w].pc = "done" => Observed(frame[w]) = AloneOutcome(frame[w], env, store)
        /\ \A v \in Workers \ {w} : HandlesOf(frame[w]) \cap HandlesOf(frame[v]) = {}

\* C8: under any interleaving of invocations no call changes the process
\* state the calls share (the environment) or the store, each call has a
\* client of its own, and each call's result is the one it would produce if
\* run alone against the same store and configuration.
C8_NoInterference ==
    [](C8_Independent) /\ [][env' = env /\ store' = store]_vars

\* two invocations of list_resources in flight at once: one is over, the
\* other in the middle of its loop, each through a client of its own
C8_Witness ==
    \E w, v \in Workers :
        /\ w # v
        /\ Done(w, "list_resources")
        /\ frame[w].outcome.status = "ok"
        /\ frame[v].op = "list_resources"
        /\ frame[v].pc = "L67"
        /\ frame[v].resources # <<>>
        /\ frame[v].dbRows # <<>>
        /\ MadeBy(frame[w]) # MadeBy(frame[v])

=============================================================================
